---------------------------- MODULE Spec2Model ----------------------------
(***************************************************************************)
(* Model of the Lily recruiter backend (src/main.py, src/schemas.py): the  *)
(* HTTP handlers over a document store with the collections role,          *)
(* applicant, interview and result.                                        *)
(*                                                                         *)
(* Text is a sequence of one-character strings, so that strip(), lower()   *)
(* and the `in` substring test are computed character by character.  The   *)
(* canned replies are fixed texts that are only ever compared as a whole;  *)
(* each is a one-chunk sequence.                                           *)
(***************************************************************************)
EXTENDS Integers, Sequences, FiniteSets, TLC

VARIABLES
    db,         \* the module-level store handle of `database`: "None" or "conn"
    started,    \* whether the startup event has run and requests are served
    role,       \* collection "role": documents in insertion order
    applicant,  \* collection "applicant"
    interview,  \* collection "interview"
    result,     \* collection "result"
    pc,         \* per worker thread: position inside the chat handler
    turn,       \* per worker thread: the ChatTurn being handled
    reply,      \* per worker thread: the local variable `reply` of chat
    at,         \* per worker thread: index at which its first $push landed (history)
    pushes,     \* per interview id: number of $push applied (history)
    ret,        \* the response most recently returned to a client
    issued,     \* the <<id, body>> of every role create_role returned (history)
    input       \* the text the pure-function specifications draw at Init

vars == <<db, started, role, applicant, interview, result,
          pc, turn, reply, at, pushes, ret, issued, input>>

store == <<role, applicant, interview, result>>
local == <<pc, turn, reply, at>>

---------------------------------------------------------------------------
(* Bounds of the model *)

MaxPieces == 3       \* pieces concatenated into a drawn chat message / code
MaxPushes == 4       \* $push calls on the interviews of the session specification
MaxSessions == 1     \* interviews started in the session specification
MaxApplicants == 60  \* applicants inserted in the admin-listing specification
MaxInterviews == 52  \* interviews inserted in the admin-listing specification
MaxCreated == 2      \* roles created through POST /api/roles

Threads == {"t1", "t2"}

---------------------------------------------------------------------------
(* Text *)

\* Python's None where a string may stand, and where a document may stand
None == "None"
NoItem == <<>>

Upper == <<"A","B","C","D","E","F","G","H","I","J","K","L","M",
           "N","O","P","Q","R","S","T","U","V","W","X","Y","Z">>
Lower == <<"a","b","c","d","e","f","g","h","i","j","k","l","m",
           "n","o","p","q","r","s","t","u","v","w","x","y","z">>

lowerChar(c) ==
    IF \E i \in 1..26 : Upper[i] = c
    THEN Lower[CHOOSE i \in 1..26 : Upper[i] = c]
    ELSE c

\* str.lower()
lower(s) == [i \in 1..Len(s) |-> lowerChar(s[i])]

isspace(c) == c \in {" ", "\n", "\t"}

\* str.strip(): drops leading and trailing whitespace
strip(s) ==
    LET keep == {i \in 1..Len(s) : ~isspace(s[i])}
    IN  IF keep = {} THEN <<>>
        ELSE SubSeq(s, CHOOSE i \in keep : \A j \in keep : i <= j,
                       CHOOSE i \in keep : \A j \in keep : i >= j)

\* the Python test `k in s` on strings
contains(k, s) ==
    \E i \in 0..(Len(s) - Len(k)) : SubSeq(s, i + 1, i + Len(k)) = k

---------------------------------------------------------------------------
(* Identifiers.  The store generates a fresh ObjectId for every inserted   *)
(* document: <<c, n>> is the one of the n-th document of collection c.     *)
(* On the wire an id is a string: <<"hex24", oid>> stands for the 24 hex   *)
(* digits that render oid, any other first component for a string that is  *)
(* not 24 hex digits.                                                      *)

\* the ObjectId generated for the next document of collection `name`
new_oid(name, coll) == <<name, Len(coll) + 1>>

\* a string that is not 24 hex digits
MalformedIdStr == <<"abc", <<"none", 0>>>>

\* str(ObjectId)
OidStr(oid) == <<"hex24", oid>>

\* bson.ObjectId(s) raises InvalidId unless s is 24 hex digits
InvalidId(s) == s[1] # "hex24"

\* bson.ObjectId(s) for a well-formed s
ObjectId(s) == s[2]

\* a well-formed id that no document carries
UnknownIdStr == <<"hex24", <<"none", 0>>>>

---------------------------------------------------------------------------
(* The document store *)

\* `if db:` / `if not db:`: read, like `db is None`, as the test whether the
\* handle is present.  The handle is None when the store is not configured,
\* otherwise a connected database handle.
truthy(d) == d # None

\* database.create_document: insert `data` under a fresh id
create_document(coll, data, oid) == Append(coll, [_id |-> oid] @@ data)

\* database.get_documents: every document of the collection
get_documents(coll) == coll

\* collection.find_one({"_id": oid}): the matching documents (at most one)
find_one(coll, oid) == {i \in 1..Len(coll) : coll[i]._id = oid}

\* it["id"] = str(it.pop("_id"))
expose_id(doc) ==
    [f \in (DOMAIN doc \ {"_id"}) |-> doc[f]] @@ [id |-> OidStr(doc._id)]

\* responses: a handler returns a body ("ok"), is rejected by request
\* validation ("invalid", 422), or lets an exception escape ("fault", 500)
Ok(op, args, out) == [op |-> op, args |-> args, status |-> "ok", out |-> out]
Invalid(op, args) == [op |-> op, args |-> args, status |-> "invalid", out |-> <<>>]
Fault(op, args, why) == [op |-> op, args |-> args, status |-> "fault", out |-> why]

idle == \A t \in Threads : pc[t] = "idle"

\* the locals of a thread that is not inside chat
NoTurn == [interview_id |-> UnknownIdStr, message |-> <<>>]

---------------------------------------------------------------------------
(* Roles *)

SeedRoles == <<
    [title |-> "Frontend Engineer", department |-> "Engineering",
     location |-> "Remote", level |-> "Mid",
     description |-> "Build modern web UIs with React, TypeScript, and Tailwind.",
     requirements |-> <<"React", "TypeScript", "CSS", "Testing">>],
    [title |-> "Backend Engineer", department |-> "Engineering",
     location |-> "Remote", level |-> "Senior",
     description |-> "Design APIs and services with Node/Go/Python.",
     requirements |-> <<"API design", "Databases", "Cloud", "Testing">>],
    [title |-> "Data Analyst", department |-> "Data",
     location |-> "Hybrid", level |-> "Junior",
     description |-> "Analyze data and build dashboards.",
     requirements |-> <<"SQL", "Python", "Visualization">> ] >>

\* the startup event.  lost is the number of seed roles not inserted
\* because a create_document call raised (0: none raised); whatever is
\* raised is swallowed by `except Exception: pass`.
seed_roles(lost) ==
    /\ ~started
    /\ started' = TRUE
    /\ IF db = None
       THEN UNCHANGED role
       ELSE IF Len(role) = 0
            THEN role' = [i \in 1..(Len(SeedRoles) - lost) |->
                            [_id |-> <<"role", i>>] @@ SeedRoles[i]]
            ELSE UNCHANGED role
    /\ ret' = Ok("seed_roles", <<>>, <<>>)
    /\ UNCHANGED <<db, applicant, interview, result, local, pushes, issued, input>>

\* the process stops (and is started again by seed_roles)
shutdown ==
    /\ started /\ idle
    /\ started' = FALSE
    /\ ret' = Ok("shutdown", <<>>, <<>>)
    /\ UNCHANGED <<db, store, local, pushes, issued, input>>

\* RoleCreate: title and description are required; the others default
RoleCreateValid(body) == {"title", "description"} \subseteq DOMAIN body

\* the defaults written over the given fields
RoleCreateDump_defaults_win(body) ==
    [department |-> None, location |-> None, level |-> None,
     requirements |-> <<>>] @@ body

RoleCreateDump(body) ==
    body @@ [department |-> None, location |-> None, level |-> None,
             requirements |-> <<>>]

list_roles ==
    /\ started
    /\ ret' = Ok("list_roles", <<>>,
                 IF truthy(db)
                 THEN [i \in 1..Len(get_documents(role)) |->
                          expose_id(get_documents(role)[i])]
                 ELSE <<>>)
    /\ UNCHANGED <<db, started, store, local, pushes, issued, input>>

get_role(role_id) ==
    /\ started
    /\ ret' = IF db = None THEN Ok("get_role", role_id, [role |-> NoItem])
              ELSE IF InvalidId(role_id)
                   THEN Fault("get_role", role_id, "InvalidId")
              ELSE IF find_one(role, ObjectId(role_id)) = {}
                   THEN Ok("get_role", role_id, [role |-> NoItem])
              ELSE Ok("get_role", role_id,
                      [role |-> expose_id(
                          role[CHOOSE i \in find_one(role, ObjectId(role_id)) : TRUE])])
    /\ UNCHANGED <<db, started, store, local, pushes, issued, input>>

\* written: whether the store accepts the insert (otherwise it raises)
create_role(body, written) ==
    /\ started
    /\ IF ~RoleCreateValid(body)
       THEN /\ ret' = Invalid("create_role", body)
            /\ UNCHANGED role
       ELSE IF db = None \/ ~written
       THEN /\ ret' = Fault("create_role", body, "store")
            /\ UNCHANGED role
       ELSE /\ role' = create_document(role, RoleCreateDump(body), new_oid("role", role))
            /\ ret' = Ok("create_role", body, [id |-> OidStr(new_oid("role", role))])
    /\ issued' = IF ret'.status = "ok"
                 THEN issued \cup {<<ret'.out.id, body>>} ELSE issued
    /\ UNCHANGED <<db, started, applicant, interview, result, local, pushes, input>>

---------------------------------------------------------------------------
(* Applicants *)

\* ApplicantCreate: name and email are required strings
ApplicantCreateValid(body) == {"name", "email"} \subseteq DOMAIN body

ApplicantCreateDump(body) == body @@ [role_id |-> None, resume_text |-> None]

SuggestedRoles == <<"Frontend Engineer", "Backend Engineer">>

\* schemas.Applicant.email: EmailStr accepts local@domain with a dotted
\* domain.  No handler builds a schemas.Applicant.
EmailStr(e) ==
    /\ Cardinality({i \in 1..Len(e) : e[i] = "@"}) = 1
    /\ LET a == CHOOSE i \in 1..Len(e) : e[i] = "@"
       IN  /\ a > 1
           /\ \E d \in (a + 2)..(Len(e) - 1) : e[d] = "."
           /\ e[a + 1] # "."
    /\ \A i \in 1..Len(e) : ~isspace(e[i])

apply(body, written) ==
    /\ started
    /\ IF ~ApplicantCreateValid(body)
       THEN /\ ret' = Invalid("apply", body)
            /\ UNCHANGED applicant
       ELSE IF db = None \/ ~written
       THEN /\ ret' = Fault("apply", body, "store")
            /\ UNCHANGED applicant
       ELSE /\ applicant' = create_document(applicant, ApplicantCreateDump(body),
                                               new_oid("applicant", applicant))
            /\ ret' = Ok("apply", body, [applicant_id |-> OidStr(new_oid("applicant", applicant)),
                                         suggested_roles |-> SuggestedRoles])
    /\ UNCHANGED <<db, started, role, interview, result, local, pushes, issued, input>>

---------------------------------------------------------------------------
(* Admin listings *)

AdminLimit == 50

\* the cursor read without its limit
find_unlimited(coll, n) == coll

\* list(collection.find().limit(n))
find_limit(coll, n) == SubSeq(coll, 1, IF Len(coll) < n THEN Len(coll) ELSE n)

admin_list(coll) ==
    IF ~truthy(db) THEN <<>>
    ELSE [i \in 1..Len(find_limit(coll, AdminLimit)) |->
             expose_id(find_limit(coll, AdminLimit)[i])]

admin_applicants ==
    /\ started
    /\ ret' = Ok("admin_applicants", <<>>, admin_list(applicant))
    /\ UNCHANGED <<db, started, store, local, pushes, issued, input>>

admin_interviews ==
    /\ started
    /\ ret' = Ok("admin_interviews", <<>>, admin_list(interview))
    /\ UNCHANGED <<db, started, store, local, pushes, issued, input>>

---------------------------------------------------------------------------
(* Interview session *)

\* (the source spells the apostrophe of the greeting U+2019)
Greeting == <<"Hi! I'm Lily. Tell me about yourself.">>
ReplyGeneric == <<"Thanks! Can you share a challenging project you led?">>
ReplyFrontend == <<"Great frontend background. How do you manage state at scale?">>
ReplyBackend == <<"Nice backend focus. How do you design resilient APIs?">>

KeywordsA == { <<"r","e","a","c","t">>, <<"f","r","o","n","t","e","n","d">>, <<"u","i">> }
KeywordsB == { <<"p","y","t","h","o","n">>, <<"b","a","c","k","e","n","d">>, <<"a","p","i">> }

\* the two keyword tests in the other order
chat_reply_backend_first(user_msg) ==
    IF \E k \in KeywordsB : contains(k, lower(user_msg)) THEN ReplyBackend
    ELSE IF \E k \in KeywordsA : contains(k, lower(user_msg)) THEN ReplyFrontend
    ELSE ReplyGeneric

\* the branch of chat that picks `reply` from the stripped message
chat_reply(user_msg) ==
    IF \E k \in KeywordsA : contains(k, lower(user_msg)) THEN ReplyFrontend
    ELSE IF \E k \in KeywordsB : contains(k, lower(user_msg)) THEN ReplyBackend
    ELSE ReplyGeneric

\* $set in place of $push: the message replaces the sequence
push_as_set(coll, oid, msg) ==
    [i \in 1..Len(coll) |->
        IF coll[i]._id = oid
        THEN [coll[i] EXCEPT !.messages = <<msg>>]
        ELSE coll[i]]

\* update_one({"_id": oid}, {"$push": {"messages": msg}})
push(coll, oid, msg) ==
    [i \in 1..Len(coll) |->
        IF coll[i]._id = oid
        THEN [coll[i] EXCEPT !.messages = Append(@, msg)]
        ELSE coll[i]]

\* the mode written back as "chat"
set_mode_chat(coll, oid) ==
    [i \in 1..Len(coll) |->
        IF coll[i]._id = oid THEN [coll[i] EXCEPT !.mode = "chat"] ELSE coll[i]]

\* update_one({"_id": oid}, {"$set": {"mode": "coding"}})
set_mode(coll, oid) ==
    [i \in 1..Len(coll) |->
        IF coll[i]._id = oid THEN [coll[i] EXCEPT !.mode = "coding"] ELSE coll[i]]

\* index at which a $push on oid lands (0: no document matches)
landing(coll, oid) ==
    IF find_one(coll, oid) = {} THEN 0
    ELSE Len(coll[CHOOSE i \in find_one(coll, oid) : TRUE].messages) + 1

counted(oid) == IF oid \in DOMAIN pushes THEN (oid :> pushes[oid] + 1) @@ pushes
                ELSE pushes

start_interview(applicant_id, role_id, written) ==
    /\ started
    /\ IF db = None \/ ~written
       THEN /\ ret' = Fault("start_interview", <<applicant_id, role_id>>, "store")
            /\ UNCHANGED <<interview, pushes>>
       ELSE /\ interview' = create_document(interview,
                   [applicant_id |-> applicant_id, role_id |-> role_id,
                    mode |-> "chat",
                    messages |-> << [sender |-> "lily", text |-> Greeting] >>],
                   new_oid("interview", interview))
            /\ pushes' = (new_oid("interview", interview) :> 0) @@ pushes
            /\ ret' = Ok("start_interview", <<applicant_id, role_id>>,
                         [interview_id |-> OidStr(new_oid("interview", interview))])
    /\ UNCHANGED <<db, started, role, applicant, result, local, issued, input>>

\* chat, from its entry to the first update_one (or to its return when the
\* handle is falsy or an exception escapes)
chat(t, req, written) ==
    /\ started /\ pc[t] = "idle"
    /\ IF ~truthy(db)
       THEN /\ ret' = Ok("chat", req, [reply |-> chat_reply(strip(req.message))])
            /\ UNCHANGED <<local, interview, pushes>>
       ELSE IF InvalidId(req.interview_id)
       THEN /\ ret' = Fault("chat", req, "InvalidId")
            /\ UNCHANGED <<local, interview, pushes>>
       ELSE IF ~written
       THEN /\ ret' = Fault("chat", req, "store")
            /\ UNCHANGED <<local, interview, pushes>>
       ELSE /\ interview' = push(interview, ObjectId(req.interview_id),
                                 [sender |-> "candidate", text |-> strip(req.message)])
            /\ turn' = [turn EXCEPT ![t] = req]
            /\ reply' = [reply EXCEPT ![t] = chat_reply(strip(req.message))]
            /\ at' = [at EXCEPT ![t] = landing(interview, ObjectId(req.interview_id))]
            /\ pushes' = counted(ObjectId(req.interview_id))
            /\ pc' = [pc EXCEPT ![t] = "push_lily"]
            /\ UNCHANGED ret
    /\ UNCHANGED <<db, started, role, applicant, result, issued, input>>

\* chat, from the second update_one to its return
chat_push_lily(t, written) ==
    /\ pc[t] = "push_lily"
    /\ pc' = [pc EXCEPT ![t] = "idle"]
    /\ turn' = [turn EXCEPT ![t] = NoTurn]
    /\ reply' = [reply EXCEPT ![t] = <<>>]
    /\ at' = [at EXCEPT ![t] = 0]
    /\ IF ~written
       THEN /\ ret' = Fault("chat", turn[t], "store")
            /\ UNCHANGED <<interview, pushes>>
       ELSE /\ interview' = push(interview, ObjectId(turn[t].interview_id),
                                 [sender |-> "lily", text |-> reply[t]])
            /\ pushes' = counted(ObjectId(turn[t].interview_id))
            /\ ret' = Ok("chat", turn[t], [reply |-> reply[t]])
    /\ UNCHANGED <<db, started, role, applicant, result, issued, input>>

StarterCode == <<"// Write a function to reverse a string ...">>

start_coding(interview_id, written) ==
    /\ started
    /\ IF ~truthy(db)
       THEN /\ ret' = Ok("start_coding", interview_id,
                         [starter_code |-> StarterCode, language |-> "javascript"])
            /\ UNCHANGED interview
       ELSE IF InvalidId(interview_id)
       THEN /\ ret' = Fault("start_coding", interview_id, "InvalidId")
            /\ UNCHANGED interview
       ELSE IF ~written
       THEN /\ ret' = Fault("start_coding", interview_id, "store")
            /\ UNCHANGED interview
       ELSE /\ interview' = set_mode(interview, ObjectId(interview_id))
            /\ ret' = Ok("start_coding", interview_id,
                         [starter_code |-> StarterCode, language |-> "javascript"])
    /\ UNCHANGED <<db, started, role, applicant, result, local, pushes,
                   issued, input>>

OutputGeneric == <<"Running tests...\nTest 1: PASSED\nTest 2: PASSED\nAll good!">>
OutputPassed == <<"All tests passed.">>
OutputError == <<"Compilation error: Unexpected token">>

\* the two substring tests in the other order
run_output_error_first(code) ==
    IF contains(<<"e","r","r","o","r">>, lower(code)) THEN OutputError
    ELSE IF contains(<<"r","e","v","e","r","s","e">>, lower(code)) THEN OutputPassed
    ELSE OutputGeneric

\* the branch of run_code that picks `output`
run_output(code) ==
    IF contains(<<"r","e","v","e","r","s","e">>, lower(code)) THEN OutputPassed
    ELSE IF contains(<<"e","r","r","o","r">>, lower(code)) THEN OutputError
    ELSE OutputGeneric

run_code(req) ==
    /\ started
    /\ ret' = Ok("run_code", req, [stdout |-> run_output(req.code)])
    /\ UNCHANGED <<db, started, store, local, pushes, issued, input>>

Scores == [communication |-> 82, problem_solving |-> 76, technical |-> 88,
           summary |-> "Strong fundamentals, clear communication. Consider deeper system design practice."]

complete(interview_id, written) ==
    /\ started
    /\ IF db = None \/ ~written
       THEN /\ ret' = Fault("complete", interview_id, "store")
            /\ UNCHANGED result
       ELSE /\ result' = create_document(result,
                            [interview_id |-> interview_id] @@ Scores,
                            new_oid("result", result))
            /\ ret' = Ok("complete", interview_id,
                         [result_id |-> OidStr(new_oid("result", result))] @@ Scores)
    /\ UNCHANGED <<db, started, role, applicant, interview, local, pushes,
                   issued, input>>

---------------------------------------------------------------------------
(* Initial states *)

\* after import of the module, before the startup event, on an empty store
InitBoot ==
    /\ db \in {None, "conn"}
    /\ started = FALSE
    /\ role = <<>> /\ applicant = <<>> /\ interview = <<>> /\ result = <<>>
    /\ pc = [t \in Threads |-> "idle"]
    /\ turn = [t \in Threads |-> NoTurn]
    /\ reply = [t \in Threads |-> <<>>]
    /\ at = [t \in Threads |-> 0]
    /\ pushes = <<>>
    /\ ret = Ok("import", <<>>, <<>>)
    /\ issued = {}
    /\ input = <<>>

RoleBodies ==
    { [title |-> "QA Engineer", description |-> "Test things."],
      [title |-> "SRE", description |-> "Keep it up.", level |-> "Senior",
       requirements |-> <<"Linux", "Go">>],
      [title |-> "No description"],
      [description |-> "No title.", department |-> "Ops"] }

RoleIds == {OidStr(<<"role", n>>) : n \in 1..(Len(SeedRoles) + MaxCreated)}
              \cup {UnknownIdStr, MalformedIdStr}

NextRoles ==
    \/ \E lost \in 0..Len(SeedRoles) : seed_roles(lost)
    \/ shutdown
    \/ list_roles
    \/ \E id \in RoleIds : get_role(id)
    \/ \E body \in RoleBodies, written \in BOOLEAN :
          /\ Len(role) < Len(SeedRoles) + MaxCreated
          /\ create_role(body, written)

SpecRoles == InitBoot /\ [][NextRoles]_vars

---------------------------------------------------------------------------
(* Interview sessions served by two worker threads *)

\* after a startup event that seeded an empty store without a fault
InitServing ==
    /\ db \in {None, "conn"}
    /\ started = TRUE
    /\ role = IF db = None THEN <<>>
              ELSE [i \in 1..Len(SeedRoles) |-> [_id |-> <<"role", i>>] @@ SeedRoles[i]]
    /\ applicant = <<>> /\ interview = <<>> /\ result = <<>>
    /\ pc = [t \in Threads |-> "idle"]
    /\ turn = [t \in Threads |-> NoTurn]
    /\ reply = [t \in Threads |-> <<>>]
    /\ at = [t \in Threads |-> 0]
    /\ pushes = <<>>
    /\ ret = Ok("seed_roles", <<>>, <<>>)
    /\ issued = {}

Init == InitServing /\ input = <<>>

\* ids a client can hold: those of the interviews started so far, a
\* well-formed id of no interview, and a string that is no ObjectId
KnownIds == {OidStr(interview[i]._id) : i \in 1..Len(interview)}
                \cup {MalformedIdStr, UnknownIdStr}

\* $push calls made so far and still to come from the chats in flight
pushload ==
    LET total[i \in 0..Len(interview)] ==
            IF i = 0 THEN 0 ELSE total[i - 1] + Len(interview[i].messages) - 1
    IN  total[Len(interview)] + Cardinality({t \in Threads : pc[t] = "push_lily"})

Messages == { <<" ", "U", "I", " ", "a", "p", "i", " ">>, <<"h", "i", "\n">> }

Next ==
    \/ \E written \in BOOLEAN :
          /\ Len(interview) < MaxSessions
          /\ start_interview(OidStr(<<"applicant", 1>>), OidStr(<<"role", 1>>), written)
    \/ \E t \in Threads, id \in KnownIds, m \in Messages, written \in BOOLEAN :
          /\ pushload + 2 <= MaxPushes
          /\ chat(t, [interview_id |-> id, message |-> m], written)
    \/ \E t \in Threads, written \in BOOLEAN : chat_push_lily(t, written)
    \/ \E id \in KnownIds, written \in BOOLEAN : start_coding(id, written)
    \/ run_code([interview_id |-> UnknownIdStr, language |-> "javascript",
                 code |-> <<"x">>, input |-> <<>>])
    \/ \E id \in KnownIds \ {UnknownIdStr, MalformedIdStr}, written \in BOOLEAN :
          /\ Len(result) < 1
          /\ complete(id, written)

Spec == Init /\ [][Next]_vars

---------------------------------------------------------------------------
(* Application intake *)

Email(name) == name \o <<"@", "x", ".", "i", "o">>
NotAnEmail == <<"n","o","t","-","a","n","-","e","m","a","i","l">>

ApplyBodies ==
    { [name |-> "Ann", email |-> Email(<<"a">>)],
      [name |-> "Bob", email |-> Email(<<"b">>), role_id |-> OidStr(<<"role", 1>>),
       resume_text |-> "Skills: React"],
      [name |-> "Eve", email |-> NotAnEmail],
      [name |-> "Fay", email |-> <<"f", "@", "x">>],
      [name |-> "Gus", email |-> <<"@", "x", ".", "i", "o">>],
      [email |-> Email(<<"c">>)],
      [name |-> "Dan"] }

NextApply ==
    \/ \E body \in ApplyBodies, written \in BOOLEAN :
          /\ Len(applicant) < MaxCreated
          /\ apply(body, written)
    \/ admin_applicants

SpecApply == Init /\ [][NextApply]_vars

---------------------------------------------------------------------------
(* Admin listings over a growing store *)

NextAdmin ==
    \/ \E written \in BOOLEAN :
          /\ Len(applicant) < MaxApplicants
          /\ apply([name |-> "Ann", email |-> Email(<<"a">>)], written)
    \/ \E written \in BOOLEAN :
          /\ Len(interview) < MaxInterviews
          /\ start_interview(OidStr(<<"applicant", 1>>), OidStr(<<"role", 1>>), written)
    \/ admin_applicants
    \/ admin_interviews

SpecAdmin == Init /\ [][NextAdmin]_vars

---------------------------------------------------------------------------
(* The reply and output branches over drawn texts *)

Concat(ps) ==
    LET cat[i \in 0..Len(ps)] == IF i = 0 THEN <<>> ELSE cat[i - 1] \o ps[i]
    IN  cat[Len(ps)]

\* every concatenation of at most MaxPieces of the pieces
Drawn(pieces) ==
    {Concat(ps) : ps \in UNION {[1..n -> pieces] : n \in 0..MaxPieces}}

ChatPieces ==
    { <<"r","e","a","c","t">>, <<"F","r","o","n","t">>, <<"e","n","d">>,
      <<"U","I">>, <<"p","y","t","h","o","n">>,
      <<"b","a","c","k">>, <<"A","p","i">>, <<" ">> }

CodePieces ==
    { <<"r","e","v","e","r","s","e">>, <<"R","E","V">>, <<"e","r","s","e">>,
      <<"e","r","r","o","r">>, <<"E","r","r">>, <<"o","r">>, <<"x">>, <<"\n">> }

InitChatReply == InitServing /\ input \in Drawn(ChatPieces)

NextChatReply ==
    \/ \E written \in BOOLEAN :
          /\ Len(interview) < 1
          /\ start_interview(OidStr(<<"applicant", 1>>), OidStr(<<"role", 1>>), written)
    \/ \E id \in KnownIds, written \in BOOLEAN :
          /\ pushload + 2 <= 2
          /\ chat("t1", [interview_id |-> id, message |-> input], written)
    \/ \E written \in BOOLEAN : chat_push_lily("t1", written)
    \/ \E id \in KnownIds : start_coding(id, TRUE)

SpecChatReply == InitChatReply /\ [][NextChatReply]_vars

InitRunCode == InitServing /\ input \in Drawn(CodePieces)

NextRunCode ==
    \/ \E written \in BOOLEAN :
          /\ Len(interview) < 1
          /\ start_interview(OidStr(<<"applicant", 1>>), OidStr(<<"role", 1>>), written)
    \/ \E id \in KnownIds, lang \in {"javascript", "python"}, in \in {<<>>, <<"x">>} :
          run_code([interview_id |-> id, language |-> lang,
                    code |-> input, input |-> in])

SpecRunCode == InitRunCode /\ [][NextRunCode]_vars

---------------------------------------------------------------------------
(* Claims about the role catalog, under SpecRoles *)

StripId(doc) == [f \in (DOMAIN doc \ {"_id"}) |-> doc[f]]
SeededIn(coll) == {i \in 1..Len(coll) : \E j \in 1..Len(SeedRoles) : StripId(coll[i]) = SeedRoles[j]}

\* C5: once the startup event has run against a configured store that was
\* empty at first, the catalog holds exactly the three seeded roles, however
\* often the process is restarted.
C5_SeededExactlyThree ==
    (started /\ db # None) =>
        /\ Cardinality(SeededIn(role)) = Len(SeedRoles)
        /\ \A j \in 1..Len(SeedRoles) : StripId(role[j]) = SeedRoles[j]

\* C7: get(id) never raises: a malformed or unknown id, or an unavailable
\* store, gives a null role; a stored id gives that role with its id.
C7_GetRoleNeverRaises ==
    ret.op = "get_role" =>
        /\ ret.status = "ok"
        /\ (db = None \/ InvalidId(ret.args)
              \/ \A i \in 1..Len(role) : OidStr(role[i]._id) # ret.args)
           => ret.out.role = NoItem

\* C9: fetching a role by the id its creation returned gives the input's
\* fields (requirements defaulting to the empty list) plus that id, also
\* after other creations and restarts.
C9_RoleRoundTrip ==
    \A p \in issued :
        (ret.op = "get_role" /\ ret.args = p[1]) =>
            /\ ret.status = "ok"
            /\ ret.out.role # NoItem
            /\ \A f \in DOMAIN p[2] : ret.out.role[f] = p[2][f]
            /\ "requirements" \notin DOMAIN p[2] => ret.out.role.requirements = <<>>
            /\ DOMAIN ret.out.role = {"id", "title", "department", "location",
                                      "level", "description", "requirements"}
            /\ ret.out.role.id = p[1]
            /\ "_id" \notin DOMAIN ret.out.role

\* C9's case: a role fetched after a later creation and a restart
C9_Witness ==
    /\ ret.op = "get_role" /\ ret.status = "ok"
    /\ \E p \in issued : /\ p[1] = ret.args
                         /\ "requirements" \notin DOMAIN p[2]
                         /\ \E q \in issued : q[1][2][2] > p[1][2][2]

---------------------------------------------------------------------------
(* Claims about the reply and output branches *)

\* the same letter, whatever its case
SameLetter(c, k) == c = k \/ \E i \in 1..26 : {c, k} = {Upper[i], Lower[i]}

\* text holds keyword kw at some offset, case-insensitively
Mentions(text, kw) ==
    \E i \in 1..(Len(text) - Len(kw) + 1) :
        \A j \in 1..Len(kw) : SameLetter(text[i + j - 1], kw[j])

ExpectedReply(message) ==
    IF \E kw \in KeywordsA : Mentions(message, kw) THEN ReplyFrontend
    ELSE IF \E kw \in KeywordsB : Mentions(message, kw) THEN ReplyBackend
    ELSE ReplyGeneric

\* C1: the reply of chat is fixed by the message alone: the frontend
\* question when it mentions react, frontend or ui in any case (also when
\* it mentions python, backend or api too), else the backend question when
\* it mentions python, backend or api, else the generic question, whatever
\* the interview id, the interview's mode and its stored messages.
C1_ReplyByPrecedence ==
    /\ (ret.op = "chat" /\ ret.status = "ok")
          => ret.out.reply = ExpectedReply(ret.args.message)
    /\ \A t \in Threads :
          pc[t] = "push_lily" => reply[t] = ExpectedReply(turn[t].message)

\* C1's case: a message mentioning a keyword of both sets, answered on an
\* interview already in coding mode
C1_Witness ==
    /\ ret.op = "chat" /\ ret.status = "ok"
    /\ \E a \in KeywordsA : Mentions(ret.args.message, a)
    /\ \E b \in KeywordsB : Mentions(ret.args.message, b)
    /\ ret.out.reply = ReplyFrontend
    /\ \E i \in 1..Len(interview) :
          /\ OidStr(interview[i]._id) = ret.args.interview_id
          /\ interview[i].mode = "coding"
          /\ Len(interview[i].messages) = 3

ExpectedOutput(code) ==
    IF Mentions(code, <<"r","e","v","e","r","s","e">>) THEN OutputPassed
    ELSE IF Mentions(code, <<"e","r","r","o","r">>) THEN OutputError
    ELSE OutputGeneric

\* C8: run_code answers by the code's text alone: the success message when
\* it mentions reverse in any case (also when it mentions error too), else
\* the compilation error when it mentions error, else the generic message,
\* whatever the interview id, language and input, and it changes no stored
\* document.
C8_RunCodeByPrecedence ==
    /\ [](ret.op = "run_code" =>
            /\ ret.status = "ok"
            /\ ret.out.stdout = ExpectedOutput(ret.args.code))
    /\ [][ret'.op = "run_code" => UNCHANGED store]_vars

\* C8's case: code mentioning both words, run against a stored interview
C8_Witness ==
    /\ ret.op = "run_code"
    /\ Mentions(ret.args.code, <<"r","e","v","e","r","s","e">>)
    /\ Mentions(ret.args.code, <<"e","r","r","o","r">>)
    /\ ret.out.stdout = OutputPassed
    /\ ret.args.language = "python"
    /\ Len(interview) = 1 /\ OidStr(interview[1]._id) = ret.args.interview_id

---------------------------------------------------------------------------
(* Claims about application intake and the admin listings *)

\* C6: apply fails for a missing name and for an email that is not a valid
\* address, and persists no applicant for them; otherwise it answers with
\* the new id and the two fixed role titles.
C6_ApplyValidates ==
    /\ \A i \in 1..Len(applicant) : EmailStr(applicant[i].email)
    /\ ret.op = "apply" =>
          IF \/ "name" \notin DOMAIN ret.args
             \/ "email" \notin DOMAIN ret.args
             \/ ~EmailStr(ret.args.email)
          THEN ret.status # "ok"
          ELSE ret.status = "ok" =>
                  /\ ret.out.suggested_roles = SuggestedRoles
                  /\ ret.out.applicant_id = OidStr(applicant[Len(applicant)]._id)

Smaller(a, b) == IF a < b THEN a ELSE b

Listed(out, coll) ==
    /\ Len(out) = Smaller(Len(coll), 50)
    /\ \A i \in 1..Len(out) :
          /\ "_id" \notin DOMAIN out[i]
          /\ \E j \in 1..Len(coll) :
                /\ out[i].id = OidStr(coll[j]._id)
                /\ \A f \in DOMAIN coll[j] \ {"_id"} : out[i][f] = coll[j][f]
    /\ db = None => out = <<>>

\* C10: each admin listing returns min(n, 50) of the n stored documents,
\* each with its id as a plain field, and nothing without a store.
C10_ListingsCapped ==
    /\ ret.op = "admin_applicants" => ret.status = "ok" /\ Listed(ret.out, applicant)
    /\ ret.op = "admin_interviews" => ret.status = "ok" /\ Listed(ret.out, interview)

\* C10's case: sixty applicants stored, fifty listed
C10_Witness ==
    /\ Len(applicant) = 60
    /\ ret.op = "admin_applicants" /\ Len(ret.out) = 50

---------------------------------------------------------------------------
(* Claims about interview sessions, under Spec *)

IsPrefix(a, b) == Len(a) <= Len(b) /\ SubSeq(b, 1, Len(a)) = a

MessagesOf(coll, id) ==
    coll[CHOOSE i \in 1..Len(coll) : OidStr(coll[i]._id) = id].messages

Exists(coll, id) == \E i \in 1..Len(coll) : OidStr(coll[i]._id) = id

C2_Kept ==
    /\ \A i \in 1..Len(interview) :
          /\ interview[i].messages[1] = [sender |-> "lily", text |-> Greeting]
          /\ Len(interview[i].messages) = 1 + pushes[interview[i]._id]
    /\ \A t \in Threads :
          pc[t] = "push_lily" /\ Exists(interview, turn[t].interview_id) =>
              /\ at[t] > 1
              /\ MessagesOf(interview, turn[t].interview_id)[at[t]]
                    = [sender |-> "candidate", text |-> strip(turn[t].message)]

C2_Appends ==
    /\ Len(interview') >= Len(interview)
    /\ \A i \in 1..Len(interview) :
          /\ interview'[i]._id = interview[i]._id
          /\ IsPrefix(interview[i].messages, interview'[i].messages)
    /\ \A t \in Threads :
          (/\ pc[t] = "push_lily" /\ pc'[t] = "idle" /\ ret'.status = "ok"
           /\ Exists(interview, turn[t].interview_id)) =>
              LET old == MessagesOf(interview, turn[t].interview_id)
                  new == MessagesOf(interview', turn[t].interview_id)
              IN  /\ Len(new) = Len(old) + 1
                  /\ at[t] < Len(new)
                  /\ new[at[t]] = [sender |-> "candidate",
                                   text |-> strip(ret'.args.message)]
                  /\ new[Len(new)] = [sender |-> "lily", text |-> ret'.out.reply]
    /\ \A t \in Threads :
          (/\ pc[t] = "idle" /\ pc'[t] = "push_lily"
           /\ Exists(interview, turn'[t].interview_id)) =>
              Len(MessagesOf(interview', turn'[t].interview_id))
                 = Len(MessagesOf(interview, turn'[t].interview_id)) + 1

\* C2: the messages of an interview are append-only: every earlier value
\* is a prefix of the later one and the greeting stays first; a chat call
\* that returns its reply on an existing interview has appended its
\* candidate message and then its lily reply, two messages; calls running
\* together interleave their appends and none is lost.
C2_AppendOnly == []C2_Kept /\ [][C2_Appends]_vars

\* C2's case: two chat calls on one interview with their appends interleaved
C2_Witness ==
    \E i \in 1..Len(interview) :
        /\ Len(interview[i].messages) = 5
        /\ [k \in 1..5 |-> interview[i].messages[k].sender]
              = <<"lily", "candidate", "candidate", "lily", "lily">>
        /\ interview[i].messages[2].text # interview[i].messages[3].text
        /\ ret.op = "chat" /\ ret.status = "ok" /\ idle

\* C3: a chat call always returns the reply selected for its message,
\* whatever happens to its two appends.
C3_ChatAlwaysReplies ==
    ret.op = "chat" =>
        /\ ret.status = "ok"
        /\ ret.out.reply = chat_reply(strip(ret.args.message))

C4_Modes ==
    /\ \A i \in 1..Len(interview) : interview[i].mode \in {"chat", "coding"}
    /\ (ret.op = "start_coding" /\ ret.status = "ok") =>
          \A i \in 1..Len(interview) :
              OidStr(interview[i]._id) = ret.args => interview[i].mode = "coding"

C4_Moves ==
    /\ \A i \in 1..Len(interview) :
          /\ interview'[i]._id = interview[i]._id
          /\ interview'[i].applicant_id = interview[i].applicant_id
          /\ interview'[i].role_id = interview[i].role_id
          /\ interview[i].mode = "coding" => interview'[i].mode = "coding"
          /\ interview'[i].mode # interview[i].mode =>
                /\ interview'[i].messages = interview[i].messages
                /\ ret'.op = "start_coding"
                /\ ret'.args = OidStr(interview[i]._id)
    /\ \A i \in (Len(interview) + 1)..Len(interview') :
          /\ interview'[i].mode = "chat"
          /\ interview'[i].messages = << [sender |-> "lily", text |-> Greeting] >>
          /\ ret'.op = "start_interview"
          /\ ret'.out.interview_id = OidStr(interview'[i]._id)

\* C4: an interview starts in mode chat with the one lily greeting, its
\* mode only moves to coding, by start_coding, which leaves its messages,
\* applicant_id and role_id alone, and once coding it stays coding through
\* every later chat, start_coding, run_code and complete.
C4_ModeOnlyToCoding == []C4_Modes /\ [][C4_Moves]_vars

\* C4's case: a chat has been answered on an interview already in coding
\* mode, which is still in coding mode
C4_Witness ==
    \E i \in 1..Len(interview) :
        /\ interview[i].mode = "coding"
        /\ Len(interview[i].messages) = 3
        /\ ret.op = "complete" /\ ret.status = "ok"

===========================================================================
